---- MODULE Spec2Model ----
(***************************************************************************)
(* Japan_Bear_GPX: the two Streamlit scripts of the repository.            *)
(*                                                                         *)
(*   bear_main.py  corridor detection: shapely LineString.buffer(0.005),   *)
(*                 bounding-box pre-filter, route_buffer.contains          *)
(*   bear_gpx.py   proximity detection: geodesic distance from each record *)
(*                 to every 50th route point                               *)
(*                                                                         *)
(* A Streamlit script runs top to bottom on every widget event, so every   *)
(* action below is "the widget changes, then the whole script runs".       *)
(*                                                                         *)
(* Coordinates are integers in millidegrees (35.005 deg = 35005), so the   *)
(* corridor radius buffer_dist = 0.005 deg is 5 units.  A point is a pair  *)
(* <<lat, lon>>, the order both scripts store.                             *)
(***************************************************************************)
EXTENDS Integers, Sequences, FiniteSets

VARIABLES
    app,            \* which script is deployed: "main" | "gpx"
    all_bears,      \* the loaded collection (all_bears / df_bears), a sequence of rows
    uploaded_file,  \* the file_uploader widget
    safe_distance,  \* the radius slider of bear_gpx.py, in metres
    date_range,     \* the date_input widget: <<start, end>> or <<start>>
    route_points,   \* the points parsed from the file in this run
    polyline,       \* the points handed to folium.PolyLine in this run
    sampled_route,  \* the points detection was run against in this run
    detected,       \* whether this run classified records against the route
    flagged,        \* dangerous_bears / danger_bears of this run, in report order
    messages,       \* the st.error / st.warning / st.success / st.info of this run
    prev_flagged,   \* history: the flagged list the previous run showed
    raw,            \* ingestion: the items of a data source as fetched
    loader,         \* ingestion: which loader ran ("none" before)
    loaded          \* ingestion: the rows the loader returned

vars == <<app, all_bears, uploaded_file, safe_distance, date_range, route_points,
          polyline, sampled_route, detected, flagged, messages, prev_flagged,
          raw, loader, loaded>>

(***************************************************************************)
(* Bounds of the model.                                                    *)
(***************************************************************************)
MaxTrackLen == 2
MaxRaw == 3
MaxSampleLen == 60

(***************************************************************************)
(* Small helpers.                                                          *)
(***************************************************************************)
Abs(x) == IF x < 0 THEN -x ELSE x
Min2(a, b) == IF a <= b THEN a ELSE b
Max2(a, b) == IF a >= b THEN a ELSE b
Range(s) == {s[i] : i \in 1..Len(s)}
SeqsUpTo(S, n) == UNION {[1..k -> S] : k \in 0..n}

RECURSIVE Flatten(_)
Flatten(ss) == IF ss = <<>> THEN <<>> ELSE Head(ss) \o Flatten(Tail(ss))

MinOf(S) == CHOOSE x \in S : \A y \in S : x <= y
MaxOf(S) == CHOOSE x \in S : \A y \in S : x >= y

(***************************************************************************)
(* Uploaded files.  A GPX file is its tracks' segments in file order; the  *)
(* two scripts flatten them with the same triple loop.  A malformed file   *)
(* makes gpxpy.parse raise.                                                *)
(***************************************************************************)
NoFile == [kind |-> "none", segments |-> <<>>]
BadFile == [kind |-> "malformed", segments |-> <<>>]
GpxFile(segs) == [kind |-> "gpx", segments |-> segs]

\* Route points of the model: a region where latitude and longitude ranges
\* overlap (35 N, 35 E) and the region of the spec's scenario (35 N, 138 E).
DiagPts == {<<35000, 35000>>, <<35010, 35000>>, <<35010, 35010>>}
JapanPts == {<<35000, 138000>>, <<35010, 138000>>}
Tracks == SeqsUpTo(DiagPts, MaxTrackLen) \cup SeqsUpTo(JapanPts, MaxTrackLen)
GpxFiles ==
    {GpxFile(<<>>)}
    \cup {GpxFile(<<t>>) : t \in Tracks}
    \cup {GpxFile(<<SubSeq(t, 1, k), SubSeq(t, k + 1, Len(t))>>) :
            t \in {u \in SeqsUpTo(JapanPts, MaxTrackLen) : Len(u) >= 2},
            k \in 1..(MaxTrackLen - 1)}
Files == {BadFile} \cup {f \in GpxFiles : \A i \in 1..Len(f.segments) :
                                            Len(f.segments) = 1 \/ f.segments[i] # <<>>}

\* for track in gpx.tracks: for segment in track.segments: for point in ...
GpxPoints(file) == Flatten(file.segments)

(***************************************************************************)
(* Sighting rows.  date is <<>> for an absent timestamp (NaT / None) and   *)
(* <<d>> for day d.                                                        *)
(***************************************************************************)
Row(lat, lon, date, source) == [lat |-> lat, lon |-> lon, date |-> date, source |-> source]
HasDate(row) == row.date # <<>>
DayOf(row) == row.date[1]
ValidDates(bears) == {DayOf(bears[i]) : i \in {j \in 1..Len(bears) : HasDate(bears[j])}}

(***************************************************************************)
(* bear_main.py: the corridor.                                             *)
(*                                                                         *)
(* LineString(points) takes each (lat, lon) tuple as (x, y), so x is the   *)
(* latitude.  buffer(0.005) draws the set of points within 0.005 of the    *)
(* line as a polygon: flat sides 0.005 off each segment, round caps and    *)
(* joins as inscribed polygons (at least 8 segments a quarter circle,      *)
(* apothem > 0.995 r).  contains() is the polygon's interior only.         *)
(*                                                                         *)
(* On the millidegree grid the squared distance d2 from a point to its     *)
(* nearest line point decides all cases but one: inside when d2 < 25,      *)
(* outside when d2 > 25.  At d2 = 25:                                      *)
(*   - the offset from the nearest line point is (3,4), (4,3) or a mirror  *)
(*     of them: the point is on the true circle between two vertices of    *)
(*     the inscribed arc, outside the polygon;                             *)
(*   - the offset is along an axis: the point meets a flat side, or the    *)
(*     vertex where a cap crosses that axis.  The edge there is computed   *)
(*     in IEEE double as c + 0.005 or c - 0.005, c the line's coordinate,  *)
(*     and the point's coordinate is the double nearest its decimal.  For  *)
(*     most c the two are the same double (the point is on the boundary,   *)
(*     not contained), but 35.010 - 0.005 = 35.004999999999995 lies        *)
(*     beyond 35.005, which is then contained.                             *)
(* EdgeBeyond and EdgeShort tabulate that rounding for the line            *)
(* coordinates 34.990..35.020 and 137.990..138.060, which hold every track *)
(* of this model; its segments are parallel to an axis or diagonal.        *)
(***************************************************************************)
buffer_dist == 5

Sq(x) == x * x
Dist2(p, q) == Sq(p[1] - q[1]) + Sq(p[2] - q[2])
Sgn(x) == IF x > 0 THEN 1 ELSE IF x < 0 THEN -1 ELSE 0

\* <<c, s>>: the double c/1000 + s * 0.005 lies further from c/1000 than the
\* double nearest (c + 5s)/1000.
EdgeBeyond ==
    {
      <<34990, 1>>, <<34992, -1>>, <<34993, 1>>, <<34995, -1>>, <<34996, 1>>,
      <<34998, -1>>, <<34999, 1>>, <<35001, -1>>, <<35002, 1>>, <<35004, -1>>,
      <<35005, 1>>, <<35007, -1>>, <<35008, 1>>, <<35010, -1>>, <<35011, 1>>,
      <<35013, -1>>, <<35014, 1>>, <<35016, -1>>, <<35017, 1>>, <<35019, -1>>,
      <<35020, 1>> }

\* <<c, s>>: the double c/1000 + s * 0.005 lies nearer to c/1000 than the double
\* nearest (c + 5s)/1000.
EdgeShort ==
    {
      <<137991, -1>>, <<137992, 1>>, <<137997, -1>>, <<138003, 1>>, <<138008, -1>>,
      <<138009, 1>>, <<138014, -1>>, <<138015, 1>>, <<138020, -1>>, <<138021, 1>>,
      <<138026, -1>>, <<138027, 1>>, <<138032, -1>>, <<138033, 1>>, <<138038, -1>>,
      <<138039, 1>>, <<138044, -1>>, <<138045, 1>>, <<138050, -1>>, <<138051, 1>>,
      <<138056, -1>>, <<138057, 1>> }

\* Where the edge drawn buffer_dist off the line coordinate c, on side s, falls
\* against the grid value c + s * buffer_dist: 1 beyond it, 0 on it, -1 short.
EdgeRounding(c, s) ==
    IF <<c, s>> \in EdgeBeyond THEN 1
    ELSE IF <<c, s>> \in EdgeShort THEN -1
    ELSE 0

\* p is exactly buffer_dist from its nearest line point q: is it inside the
\* polygon buffer() draws?
InsideAtRadius(p, q) ==
    IF p[2] = q[2] THEN EdgeRounding(q[1], Sgn(p[1] - q[1])) = 1
    ELSE IF p[1] = q[1] THEN EdgeRounding(q[2], Sgn(p[2] - q[2])) = 1
    ELSE FALSE

\* p is inside the part of the polygon drawn around the segment a-b.
NearSegmentStrict(p, a, b) ==
    LET r == buffer_dist
        vx == b[1] - a[1]
        vy == b[2] - a[2]
        wx == p[1] - a[1]
        wy == p[2] - a[2]
        l2 == Sq(vx) + Sq(vy)
        dot == wx * vx + wy * vy
        cross == wx * vy - wy * vx
    IN  IF \/ p[1] < Min2(a[1], b[1]) - r \/ p[1] > Max2(a[1], b[1]) + r
           \/ p[2] < Min2(a[2], b[2]) - r \/ p[2] > Max2(a[2], b[2]) + r
        THEN FALSE
        ELSE IF l2 = 0 \/ dot <= 0
        THEN Dist2(p, a) < Sq(r) \/ (Dist2(p, a) = Sq(r) /\ InsideAtRadius(p, a))
        ELSE IF dot >= l2
        THEN Dist2(p, b) < Sq(r) \/ (Dist2(p, b) = Sq(r) /\ InsideAtRadius(p, b))
        ELSE \/ Sq(cross) < Sq(r) * l2
             \/ /\ Sq(cross) = Sq(r) * l2
                /\ \/ vy = 0 /\ InsideAtRadius(p, <<p[1], a[2]>>)
                   \/ vx = 0 /\ InsideAtRadius(p, <<a[1], p[2]>>)

\* route_buffer.contains(Point(x, y)) for route_buffer = LineString(points).buffer(0.005)
BufferContains(points, pt) ==
    \E i \in 1..(Len(points) - 1) : NearSegmentStrict(pt, points[i], points[i + 1])

\* An edge of the bounds: <<grid value, sign of (the double - the grid value)>>.
Edge(c, s) == <<c + s * buffer_dist, s * EdgeRounding(c, s)>>

\* route_buffer.bounds: (minx, miny, maxx, maxy)
BufferBounds(points) ==
    LET xs == {points[i][1] : i \in 1..Len(points)}
        ys == {points[i][2] : i \in 1..Len(points)}
    IN  <<Edge(MinOf(xs), -1), Edge(MinOf(ys), -1), Edge(MaxOf(xs), 1), Edge(MaxOf(ys), 1)>>

\* min_lon, min_lat, max_lon, max_lat = route_buffer.bounds
\* x is the latitude here, so min_lon receives the smallest latitude.
UnpackBounds(bounds) ==
    [min_lon |-> bounds[1], min_lat |-> bounds[2], max_lon |-> bounds[3], max_lat |-> bounds[4]]

\* v >= e and v <= e for a grid value v and an edge e
GeqEdge(v, e) == v > e[1] \/ (v = e[1] /\ e[2] <= 0)
LeqEdge(v, e) == v < e[1] \/ (v = e[1] /\ e[2] >= 0)

\* candidates = filtered_df[(latitude >= min_lat) & (latitude <= max_lat) & ...]
InBox(box, row) ==
    /\ GeqEdge(row.lat, box.min_lat) /\ LeqEdge(row.lat, box.max_lat)
    /\ GeqEdge(row.lon, box.min_lon) /\ LeqEdge(row.lon, box.max_lon)

\* (boolean indexing keeps the rows in filtered_df's order)
candidates(filtered_df, box) == SelectSeq(filtered_df, LAMBDA row : InBox(box, row))

\* if route_buffer.contains(Point(row['latitude'], row['longitude'])): append
dangerous_bears(cands, points) ==
    SelectSeq(cands, LAMBDA row : BufferContains(points, <<row.lat, row.lon>>))

(***************************************************************************)
(* Ingestion.  An item of a data source as fetched: each coordinate is a   *)
(* number, missing (None / absent key) or a non-numeric text; the date is  *)
(* a day, a value that does not parse (null, or text that is no date), or  *)
(* the item has no date field at all; adjust says the title holds the      *)
(* words the TV Asahi feed gives its adjustment pins.                      *)
(***************************************************************************)
Num(v) == [kind |-> "num", val |-> v]
Missing == [kind |-> "missing", val |-> 0]
Text == [kind |-> "text", val |-> 0]
DateOn(d) == [kind |-> "day", day |-> d]
DateNull == [kind |-> "null", day |-> 0]
DateKeyAbsent == [kind |-> "absent", day |-> 0]
Item(lat, lon, date, adjust) == [lat |-> lat, lon |-> lon, date |-> date, adjust |-> adjust]
IsNum(c) == c.kind = "num"

\* pd.to_datetime(errors='coerce') / the title's date: the day, or NaT / None
DateOf(it) == IF it.date.kind = "day" THEN <<it.date.day>> ELSE <<>>

\* The DataFrame built from the items has a date column iff some item has the
\* field.
HasDateColumn(items) == \E i \in 1..Len(items) : items[i].date.kind # "absent"

\* pd.to_numeric(errors='coerce'), pd.to_datetime(df['sighting_datetime']), then
\* dropna(subset=['latitude', 'longitude']).  Without a date column the lookup
\* raises KeyError and the function-wide handler returns an empty DataFrame;
\* otherwise a row survives iff both coordinates are numbers.
CoerceAndDrop(items, source) ==
    IF ~HasDateColumn(items) THEN <<>>
    ELSE LET kept == SelectSeq(items, LAMBDA it : IsNum(it.lat) /\ IsNum(it.lon))
         IN  [i \in 1..Len(kept) |->
                 Row(kept[i].lat.val, kept[i].lon.val, DateOf(kept[i]), source)]

\* bear_main.py, load_akita_data: the rows of raw_data['result']
load_akita_data(items) == CoerceAndDrop(items, "akita")

\* bear_main.py, load_yamanashi_data: the rows of data['result']['records']
load_yamanashi_data(items) == CoerceAndDrop(items, "yamanashi")

\* bear_gpx.py, load_tvasahi_data.  The loop skips an adjustment pin (by title,
\* tested first, or by a latitude above 80 degrees); float() of a missing or
\* non-numeric coordinate raises inside the function-wide try, whose handler
\* returns an empty DataFrame.
adjust_lat == 80000
TvSkipped(it) == it.adjust \/ (IsNum(it.lat) /\ it.lat.val > adjust_lat)
TvRaises(it) ==
    /\ ~it.adjust
    /\ \/ ~IsNum(it.lat)
       \/ (it.lat.val <= adjust_lat /\ ~IsNum(it.lon))
load_tvasahi_data(items) ==
    IF \E i \in 1..Len(items) : TvRaises(items[i])
    THEN <<>>
    ELSE LET kept == SelectSeq(items, LAMBDA it : ~TvSkipped(it) /\ it.date.kind = "day")
         IN  [i \in 1..Len(kept) |->
                 Row(kept[i].lat.val, kept[i].lon.val, DateOf(kept[i]), "tvasahi")]

(***************************************************************************)
(* The data the detection runs work on: what the loaders return for these  *)
(* sources.  Days are numbered 1, 2.  The empty source stands for one that *)
(* has no items or could not be read (no file, no connection): the loaders *)
(* return an empty DataFrame in both cases.                                *)
(***************************************************************************)
AkitaJson ==
    << Item(Num(35005), Num(138000), DateOn(2), FALSE),
       Item(Num(35005), Num(138050), DateOn(2), FALSE),
       Item(Text, Num(138000), DateOn(1), FALSE),
       Item(Num(35005), Num(35000), DateOn(1), FALSE) >>
YamanashiRecords ==
    << Item(Num(35002), Num(35003), DateNull, FALSE),
       Item(Num(35003), Num(35001), DateOn(2), FALSE),
       Item(Num(35008), Num(35001), DateOn(1), FALSE),
       Item(Num(35005), Num(35005), DateOn(2), FALSE),
       Item(Num(35010), Missing, DateOn(2), FALSE) >>
TvAsahiMarkers ==
    << Item(Num(35005), Num(138000), DateOn(2), FALSE),
       Item(Num(35005), Num(138050), DateOn(2), FALSE),
       Item(Num(90000), Num(138000), DateKeyAbsent, TRUE),
       Item(Num(35005), Num(35000), DateOn(1), FALSE),
       Item(Num(35002), Num(35003), DateKeyAbsent, FALSE),
       Item(Num(35003), Num(35001), DateOn(2), FALSE),
       Item(Num(35008), Num(35001), DateOn(1), FALSE),
       Item(Num(35005), Num(35005), DateOn(2), FALSE) >>
\* The feed as it was before the day-1 markers were added.
TvAsahiEarlier ==
    << Item(Num(35005), Num(138000), DateOn(2), FALSE),
       Item(Num(35003), Num(35001), DateOn(2), FALSE) >>

AkitaFiles == {AkitaJson, <<>>}
YamanashiResponses == {YamanashiRecords, <<>>}
TvAsahiFeeds == {TvAsahiMarkers, TvAsahiEarlier, <<>>}

\* all_bears = pd.concat([df_akita, df_yamanashi]) ; df_bears = load_tvasahi_data()
\* The first run of a server calls the loaders.
FirstLoads(a) ==
    IF a = "main"
    THEN {load_akita_data(x) \o load_yamanashi_data(y) : x \in AkitaFiles, y \in YamanashiResponses}
    ELSE {load_tvasahi_data(feed) : feed \in TvAsahiFeeds}

\* A later run.  bear_main.py's loaders are @st.cache_data: the first result is
\* kept.  bear_gpx.py's is @st.cache_data(ttl=3600): the run after the hour
\* fetches the feed again.
Reloads(a, bears) ==
    IF a = "main" THEN {bears} ELSE {bears} \cup FirstLoads(a)

(***************************************************************************)
(* The date filters.                                                       *)
(***************************************************************************)
\* bear_main.py: with no valid date, or a half-chosen range, every row is kept;
\* otherwise the rows dated inside the range.  A NaT row compares False on both
\* sides and is left out.
filtered_df(bears, dr) ==
    IF ValidDates(bears) = {} \/ Len(dr) # 2 THEN bears
    ELSE SelectSeq(bears, LAMBDA row : HasDate(row) /\ DayOf(row) >= dr[1] /\ DayOf(row) <= dr[2])

\* bear_gpx.py: every row is dated (the loader dropped the others).
filtered_data(bears, dr) ==
    SelectSeq(bears, LAMBDA row : HasDate(row) /\ DayOf(row) >= dr[1] /\ DayOf(row) <= dr[2])

\* What st.date_input can return: a range inside [min_date, max_date], or its
\* first day alone while the user is choosing the second.
DateRanges(bears) ==
    LET days == MinOf(ValidDates(bears))..MaxOf(ValidDates(bears))
    IN  {dr \in {<<s, e>> : s \in days, e \in days} : dr[1] <= dr[2]}
        \cup {<<s>> : s \in days}

\* The widget's initial value, [min_date, max_date]; <<>> when the run does not
\* create the widget (no row is dated).
DefaultRange(bears) ==
    IF ValidDates(bears) = {} THEN <<>>
    ELSE <<MinOf(ValidDates(bears)), MaxOf(ValidDates(bears))>>

(***************************************************************************)
(* bear_gpx.py: check_proximity.                                           *)
(*                                                                         *)
(* geodesic(bear_loc, route_pt).km is the WGS-84 distance.  Around 35 N    *)
(* one millidegree of latitude is 110.94 m and one of longitude 91.29 m;   *)
(* the model takes 111 m and 91 m and the plane distance, which gives the  *)
(* same verdict as the ellipsoid for every pair of grid points of this     *)
(* model at the radii it uses.  Radii are in metres.                       *)
(***************************************************************************)
m_per_mdeg_lat == 111
m_per_mdeg_lon == 91

\* geodesic(bear_loc, route_pt).km <= threshold_km
GeodesicWithin(bear_loc, route_pt, threshold) ==
    LET dy == m_per_mdeg_lat * Abs(bear_loc[1] - route_pt[1])
        dx == m_per_mdeg_lon * Abs(bear_loc[2] - route_pt[2])
    IN  IF dy > threshold \/ dx > threshold THEN FALSE
        ELSE Sq(dy) + Sq(dx) <= Sq(threshold)

sample_step == 50
sample_min_len == 50

\* Mutant: the slice is taken whatever the length (the short-route branch lost).
SampledRouteAlways(points) ==
    [k \in 1..((Len(points) + sample_step - 1) \div sample_step) |->
        points[(k - 1) * sample_step + 1]]

\* Mutant: the slice steps by 49 (an off-by-one stride).
SampledRouteStride49(points) ==
    IF Len(points) < sample_min_len THEN points
    ELSE [k \in 1..((Len(points) + sample_step - 2) \div (sample_step - 1)) |->
             points[(k - 1) * (sample_step - 1) + 1]]

\* sampled_route = route_points[::50], or all of them when len(route_points) < 50
SampledRoute(points) ==
    IF Len(points) < sample_min_len THEN points
    ELSE [k \in 1..((Len(points) + sample_step - 1) \div sample_step) |->
             points[(k - 1) * sample_step + 1]]

check_proximity(points, bear_df, threshold) ==
    LET sampled == SampledRoute(points)
    IN  SelectSeq(bear_df, LAMBDA bear :
            \E i \in 1..Len(sampled) :
                GeodesicWithin(<<bear.lat, bear.lon>>, sampled[i], threshold))

(***************************************************************************)
(* One run of a script: what the page shows for the widgets' values.       *)
(***************************************************************************)
Page(pts, line, sampled, det, flag, msgs) ==
    [route_points |-> pts, polyline |-> line, sampled_route |-> sampled,
     detected |-> det, flagged |-> flag, messages |-> msgs]

\* bear_main.py, lines 156-295
RunMain(file, dr, bears) ==
    IF bears = <<>> THEN Page(<<>>, <<>>, <<>>, FALSE, <<>>, {"no_data"})
    ELSE IF file.kind = "none" THEN Page(<<>>, <<>>, <<>>, FALSE, <<>>, {})
    ELSE IF file.kind = "malformed"
    THEN Page(<<>>, <<>>, <<>>, FALSE, <<>>, {"gpx_parse_failed"})
    ELSE LET points == GpxPoints(file)
             box == UnpackBounds(BufferBounds(points))
             dangerous == dangerous_bears(candidates(filtered_df(bears, dr), box), points)
         IN  IF points = <<>>
             THEN Page(points, <<>>, <<>>, FALSE, <<>>, {"no_route_points"})
             ELSE IF Len(points) < 2
             \* LineString(points) raises on a single coordinate; the except
             \* clause of the parse reports it.  The polyline was added before.
             THEN Page(points, points, <<>>, FALSE, <<>>, {"gpx_parse_failed"})
             ELSE Page(points, points, points, TRUE, dangerous,
                       IF dangerous # <<>> THEN {"danger_found"} ELSE {"route_safe"})

\* Mutant: the list is kept from the previous run instead of being reset.
danger_bears_stale == flagged

\* bear_gpx.py, line 170: danger_bears = pd.DataFrame()
danger_bears_init == <<>>

\* bear_gpx.py, parse_gpx: the points, or [] after st.error for a malformed file
parse_gpx(file) == IF file.kind = "gpx" THEN GpxPoints(file) ELSE <<>>

\* bear_gpx.py, lines 107-220
RunGpx(file, dr, threshold, bears) ==
    IF bears = <<>> THEN Page(<<>>, <<>>, <<>>, FALSE, <<>>, {"no_data"})
    ELSE IF Len(dr) # 2
    \* start_date, end_date = st.sidebar.date_input(...) cannot unpack one value
    THEN Page(<<>>, <<>>, <<>>, FALSE, <<>>, {"script_exception"})
    ELSE IF file.kind = "none"
    THEN Page(<<>>, <<>>, <<>>, FALSE, danger_bears_init, {"please_upload"})
    ELSE LET points == parse_gpx(file)
             parse_msgs == IF file.kind = "malformed" THEN {"gpx_parse_failed"} ELSE {}
             danger == IF points # <<>>
                       THEN check_proximity(points, filtered_data(bears, dr), threshold)
                       ELSE danger_bears_init
         IN  Page(points,
                  IF points # <<>> THEN points ELSE <<>>,
                  IF points # <<>> THEN SampledRoute(points) ELSE <<>>,
                  points # <<>>,
                  danger,
                  parse_msgs \cup (IF danger # <<>> THEN {"danger_found"} ELSE {"route_safe"}))

Script(a, file, dr, threshold, bears) ==
    IF a = "main" THEN RunMain(file, dr, bears) ELSE RunGpx(file, dr, threshold, bears)

(***************************************************************************)
(* The state machine: a widget changes and the script reruns.              *)
(*                                                                         *)
(* Every run calls the loaders first.  A run that st.stop() or an uncaught *)
(* exception ends early does not create the widgets below that line, and   *)
(* Streamlit drops the state of a widget a run did not create: the next    *)
(* run that creates it starts from its initial value.  st.date_input is    *)
(* created with the collection's first and last day as value and limits,   *)
(* so it is a new widget when a fetch changes them.                        *)
(***************************************************************************)
default_radius == 1000
Radii == {500, 1000}

Shows(page) ==
    /\ route_points' = page.route_points
    /\ polyline' = page.polyline
    /\ sampled_route' = page.sampled_route
    /\ detected' = page.detected
    /\ flagged' = page.flagged
    /\ messages' = page.messages

\* The run ended before the file uploader (and the slider) were created.
EndsEarly(msgs) == msgs \cap {"no_data", "script_exception"} # {}

\* One run: the widgets hold file, dr and threshold, the loaders return bears.
Rerun(file, dr, threshold, bears) ==
    LET range == IF bears = <<>> THEN <<>>
                 ELSE IF dr = <<>> \/ DefaultRange(bears) # DefaultRange(all_bears)
                 THEN DefaultRange(bears)
                 ELSE dr
        page == Script(app, file, range, threshold, bears)
    IN  /\ all_bears' = bears
        /\ date_range' = range
        /\ uploaded_file' = IF EndsEarly(page.messages) THEN NoFile ELSE file
        /\ safe_distance' = IF EndsEarly(page.messages) THEN default_radius ELSE threshold
        /\ prev_flagged' = flagged
        /\ Shows(page)
        /\ UNCHANGED <<app, raw, loader, loaded>>

\* The first run of the script: no file is uploaded yet.
InitApp(a) ==
    \E bears \in FirstLoads(a) :
        /\ app = a
        /\ all_bears = bears
        /\ uploaded_file = NoFile
        /\ date_range = DefaultRange(bears)
        /\ safe_distance = default_radius
        /\ prev_flagged = <<>>
        /\ route_points = <<>>
        /\ polyline = <<>>
        /\ sampled_route = <<>>
        /\ detected = FALSE
        /\ flagged = <<>>
        /\ messages = IF bears = <<>> THEN {"no_data"}
                      ELSE IF a = "main" THEN {} ELSE {"please_upload"}
        /\ raw = <<>>
        /\ loader = "none"
        /\ loaded = <<>>

Init == \E a \in {"main", "gpx"} : InitApp(a)

\* The user uploads a file, or replaces the one uploaded.
Upload ==
    /\ ~EndsEarly(messages)
    /\ \E f \in Files, bears \in Reloads(app, all_bears) :
           Rerun(f, date_range, safe_distance, bears)

\* The user removes the uploaded file.
Remove ==
    /\ ~EndsEarly(messages)
    /\ uploaded_file # NoFile
    /\ \E bears \in Reloads(app, all_bears) : Rerun(NoFile, date_range, safe_distance, bears)

\* The user moves the radius slider (bear_gpx.py only).
ChangeRadius ==
    /\ app = "gpx"
    /\ ~EndsEarly(messages)
    /\ \E r \in Radii \ {safe_distance}, bears \in Reloads(app, all_bears) :
           Rerun(uploaded_file, date_range, r, bears)

\* The user picks a date range.
ChangeDateRange ==
    /\ ValidDates(all_bears) # {}
    /\ \E dr \in DateRanges(all_bears) \ {date_range}, bears \in Reloads(app, all_bears) :
           Rerun(uploaded_file, dr, safe_distance, bears)

\* The user reloads the page: a new session, every widget at its initial value.
Refresh ==
    \E bears \in Reloads(app, all_bears) : Rerun(NoFile, <<>>, default_radius, bears)

Next == Upload \/ Remove \/ ChangeRadius \/ ChangeDateRange \/ Refresh

Spec == Init /\ [][Next]_vars

(***************************************************************************)
(* Long routes (bear_gpx.py): the sampling of check_proximity only starts  *)
(* at 50 points.  LongRoute(n) is a route of n distinct points.            *)
(***************************************************************************)
LongRoute(n) == [i \in 1..n |-> <<35000 + ((i - 1) % 160), 35000 + ((i - 1) \div 160)>>]
LongLens == (0..MaxSampleLen) \cup {100, 101, 2000, 25000, 25001}

UploadLong ==
    /\ ~EndsEarly(messages)
    /\ \E n \in LongLens, bears \in Reloads(app, all_bears) :
           Rerun(GpxFile(<<LongRoute(n)>>), date_range, safe_distance, bears)

NextLong == UploadLong \/ Remove \/ ChangeRadius \/ Refresh

SpecLong == InitApp("gpx") /\ [][NextLong]_vars

(***************************************************************************)
(* Ingestion on its own: a source of up to MaxRaw items, then one loader.  *)
(***************************************************************************)
RawItems ==
    {Item(lat, lon, date, adjust) :
        lat \in {Num(35000), Num(90000), Missing, Text},
        lon \in {Num(138000), Text},
        date \in {DateKeyAbsent, DateNull, DateOn(1)},
        adjust \in BOOLEAN}

InitLoad ==
    /\ raw \in SeqsUpTo(RawItems, MaxRaw)
    /\ loader = "none"
    /\ loaded = <<>>
    /\ app = "none"
    /\ all_bears = <<>>
    /\ uploaded_file = NoFile
    /\ date_range = <<>>
    /\ safe_distance = default_radius
    /\ prev_flagged = <<>>
    /\ route_points = <<>>
    /\ polyline = <<>>
    /\ sampled_route = <<>>
    /\ detected = FALSE
    /\ flagged = <<>>
    /\ messages = {}

Loads(name, rows) ==
    /\ loader = "none"
    /\ loader' = name
    /\ loaded' = rows
    /\ UNCHANGED <<app, all_bears, uploaded_file, safe_distance, date_range, route_points,
                   polyline, sampled_route, detected, flagged, messages, prev_flagged, raw>>

LoadAkita == Loads("akita", load_akita_data(raw))
LoadYamanashi == Loads("yamanashi", load_yamanashi_data(raw))
LoadTvAsahi == Loads("tvasahi", load_tvasahi_data(raw))

NextLoad == LoadAkita \/ LoadYamanashi \/ LoadTvAsahi

SpecLoad == InitLoad /\ [][NextLoad]_vars

(***************************************************************************)
(* Vocabulary of the properties.                                           *)
(***************************************************************************)
\* The route of the uploaded file, as this run parsed it.
Route == IF uploaded_file.kind = "gpx" THEN GpxPoints(uploaded_file) ELSE <<>>

\* The script got as far as the detection branch (bear_gpx.py stops earlier on a
\* half-chosen date range).
ReachedDetection == "script_exception" \notin messages /\ "no_data" \notin messages

\* The date-filtered collection of this run.
Filtered ==
    IF app = "main" THEN filtered_df(all_bears, date_range)
    ELSE IF Len(date_range) = 2 THEN filtered_data(all_bears, date_range)
    ELSE <<>>

Flagged(row) == row \in Range(flagged)

\* a * b <= c * d for naturals, by comparing the continued fractions of a/d and
\* c/b: no product is formed, so nothing overflows.
RECURSIVE FracLeq(_, _, _, _)
FracLeq(a, b, c, d) ==
    \* a/b <= c/d, with b > 0 and d > 0
    IF a \div b < c \div d THEN TRUE
    ELSE IF a \div b > c \div d THEN FALSE
    ELSE IF a % b = 0 THEN TRUE
    ELSE IF c % d = 0 THEN FALSE
    ELSE FracLeq(d, c % d, b, a % b)
ProdLeq(a, b, c, d) ==
    IF a = 0 \/ b = 0 THEN TRUE
    ELSE IF c = 0 \/ d = 0 THEN FALSE
    ELSE FracLeq(a, d, c, b)

\* p is within r (inclusive) of the segment a-b, distances measured with sx units
\* per millidegree of latitude and sy per millidegree of longitude.
WithinOfSegment(p, a, b, r, sx, sy) ==
    LET vx == sx * (b[1] - a[1])
        vy == sy * (b[2] - a[2])
        l2 == Sq(vx) + Sq(vy)
    IN  IF \/ sx * (p[1] - Min2(a[1], b[1])) < -r \/ sx * (p[1] - Max2(a[1], b[1])) > r
           \/ sy * (p[2] - Min2(a[2], b[2])) < -r \/ sy * (p[2] - Max2(a[2], b[2])) > r
        THEN FALSE
        ELSE LET wx == sx * (p[1] - a[1])
                 wy == sy * (p[2] - a[2])
                 dot == wx * vx + wy * vy
                 cross == Abs(wx * vy - wy * vx)
             IN  IF l2 = 0 \/ dot <= 0 THEN Sq(wx) + Sq(wy) <= Sq(r)
                 ELSE IF dot >= l2
                 THEN Sq(wx - vx) + Sq(wy - vy) <= Sq(r)
                 ELSE ProdLeq(cross, cross, Sq(r), l2)

\* The radius of this run and the units it is measured in.
WithinOfTrack(row, points) ==
    \E i \in 1..(Len(points) - 1) :
        IF app = "main"
        THEN WithinOfSegment(<<row.lat, row.lon>>, points[i], points[i + 1], buffer_dist, 1, 1)
        ELSE WithinOfSegment(<<row.lat, row.lon>>, points[i], points[i + 1], safe_distance,
                             m_per_mdeg_lat, m_per_mdeg_lon)

\* row's location lies on the track line.
OnTrack(row, points) ==
    \E i \in 1..(Len(points) - 1) :
        WithinOfSegment(<<row.lat, row.lon>>, points[i], points[i + 1], 0, 1, 1)

(***************************************************************************)
(* C1.  No false negatives between the bounding-box pre-filter and the     *)
(* containment test: for a track of at least 2 points, a record the box    *)
(* (as unpacked from route_buffer.bounds) excludes is one the containment  *)
(* test also puts outside the corridor.                                    *)
(* bear_main.py unpacks (minx, miny, maxx, maxy) as min_lon, min_lat,      *)
(* max_lon, max_lat although x is the latitude, so the box tests the       *)
(* latitude against the longitudes: the property fails.                    *)
(***************************************************************************)
C1_BoxHasNoFalseNegative ==
    (app = "main" /\ Len(Route) >= 2) =>
        LET box == UnpackBounds(BufferBounds(Route))
        IN  \A i \in 1..Len(Filtered) :
                ~InBox(box, Filtered[i]) =>
                    ~BufferContains(Route, <<Filtered[i].lat, Filtered[i].lon>>)

(***************************************************************************)
(* C2.  For a track of at least 2 points, a record lying exactly on the    *)
(* track line (on any segment, between the points too) is flagged by the   *)
(* detection run; for the track (35.000,138.000)-(35.010,138.000) the      *)
(* record at (35.005,138.050) is not flagged.                              *)
(* Fails in bear_main.py (the box of C1 drops the record) and in           *)
(* bear_gpx.py (the distance is taken to the route's points, and the       *)
(* middle of a segment can be further than the radius from both ends).     *)
(***************************************************************************)
C2_OnTrackIsFlagged ==
    (ReachedDetection /\ Len(Route) >= 2) =>
        /\ \A i \in 1..Len(Filtered) : OnTrack(Filtered[i], Route) => Flagged(Filtered[i])
        /\ Route = << <<35000, 138000>>, <<35010, 138000>> >> =>
               \A i \in 1..Len(flagged) : <<flagged[i].lat, flagged[i].lon>> # <<35005, 138050>>

(***************************************************************************)
(* C3.  A well-formed track of fewer than 2 points ends the run with an    *)
(* insufficient-points outcome, distinct from the outcome of a malformed   *)
(* file, and nothing is classified against it (nor is a verdict shown).    *)
(* bear_main.py reports a one-point track through the parse handler, and   *)
(* bear_gpx.py classifies against a one-point track and calls an empty one *)
(* safe.                                                                   *)
(***************************************************************************)
C3_ShortTrackRefused ==
    (ReachedDetection /\ uploaded_file.kind = "gpx" /\ Len(Route) < 2) =>
        /\ ~detected
        /\ flagged = <<>>
        /\ messages # {}
        /\ messages \cap {"gpx_parse_failed", "route_safe", "danger_found"} = {}

(***************************************************************************)
(* C4.  A malformed file aborts the detection run and the failure is the   *)
(* run's only outcome: no flagged list and no "route is safe" message.     *)
(* bear_gpx.py: parse_gpx reports the failure and returns [], and the      *)
(* report panel then shows the "route is safe" message.                    *)
(***************************************************************************)
C4_MalformedOnlyFails ==
    (ReachedDetection /\ uploaded_file.kind = "malformed") =>
        /\ messages = {"gpx_parse_failed"}
        /\ flagged = <<>>
        /\ ~detected

(***************************************************************************)
(* C6.  The flagged list is sorted by timestamp, latest first, and every   *)
(* record classified inside whose timestamp is absent is in the list,      *)
(* after all the timestamped ones.                                         *)
(* Neither script sorts the list (it keeps the collection's order), and    *)
(* bear_main.py's date filter drops the rows without a timestamp.          *)
(***************************************************************************)
SortedLatestFirst(rows) ==
    \A i \in 1..Len(rows) : \A j \in (i + 1)..Len(rows) :
        /\ HasDate(rows[j]) => HasDate(rows[i])
        /\ (HasDate(rows[i]) /\ HasDate(rows[j])) => DayOf(rows[i]) >= DayOf(rows[j])

\* What the run's classification makes of the whole loaded collection.
ClassifiedInside ==
    IF app = "main"
    THEN dangerous_bears(candidates(all_bears, UnpackBounds(BufferBounds(Route))),
                         Route)
    ELSE check_proximity(Route, all_bears, safe_distance)

C6_FlaggedSortedLatestFirst ==
    detected =>
        /\ SortedLatestFirst(flagged)
        /\ \A i \in 1..Len(ClassifiedInside) :
               ~HasDate(ClassifiedInside[i]) => Flagged(ClassifiedInside[i])

(***************************************************************************)
(* C9.  Classification is by the distance to the nearest track segment,    *)
(* inclusive at the radius: a record is flagged iff it is within the       *)
(* radius (the radius itself included) of some segment of the track.       *)
(* bear_main.py: contains() is false on the corridor's boundary (a record  *)
(* exactly at the radius is flagged or not by the rounding of the edge),   *)
(* the radius is fixed, and the box of C1 drops records.  bear_gpx.py      *)
(* measures to the route's points, not to its segments.                    *)
(***************************************************************************)
C9_SegmentDistanceInclusive ==
    (detected /\ Len(Route) >= 2) =>
        \A i \in 1..Len(Filtered) : Flagged(Filtered[i]) <=> WithinOfTrack(Filtered[i], Route)

(***************************************************************************)
(* C10.  After any rerun the flagged list comes from that run's track,     *)
(* radius and date-filtered collection only: with no file uploaded it is   *)
(* empty, and every flagged record is a record of the current date range   *)
(* that is near the current track by the current radius.                   *)
(***************************************************************************)
InCurrentRange(row) ==
    \/ app = "main" /\ (Len(date_range) # 2 \/ ValidDates(all_bears) = {})
    \/ /\ Len(date_range) = 2
       /\ HasDate(row)
       /\ date_range[1] <= DayOf(row)
       /\ DayOf(row) <= date_range[2]

NearCurrentTrack(row) ==
    IF app = "main"
    THEN \E i \in 1..(Len(Route) - 1) :
            WithinOfSegment(<<row.lat, row.lon>>, Route[i], Route[i + 1], buffer_dist, 1, 1)
    ELSE \E i \in 1..Len(Route) :
            GeodesicWithin(<<row.lat, row.lon>>, Route[i], safe_distance)

C10_FlaggedIsOfThisRun ==
    /\ uploaded_file = NoFile => flagged = <<>>
    /\ \A i \in 1..Len(flagged) :
           /\ flagged[i] \in Range(all_bears)
           /\ InCurrentRange(flagged[i])
           /\ NearCurrentTrack(flagged[i])

\* A file was replaced (or the radius or the range changed) after a run that
\* flagged records, and a record flagged then is no longer flagged.
C10_Witness ==
    /\ prev_flagged # <<>>
    /\ flagged # <<>>
    /\ \E i \in 1..Len(prev_flagged) : prev_flagged[i] \notin Range(flagged)

(***************************************************************************)
(* C5.  During ingestion a record whose latitude or longitude is missing   *)
(* or non-numeric is dropped alone: every other record of the source that  *)
(* has numeric coordinates (and that the loader does not lose for another *)
(* reason: its documented filters, a source with no date field) is in the  *)
(* loaded collection.                                                      *)
(* load_tvasahi_data converts with float() inside the function-wide try:   *)
(* one bad coordinate empties the whole collection.                        *)
(***************************************************************************)
BadCoordinates(it) == ~IsNum(it.lat) \/ ~IsNum(it.lon)

\* it has numeric coordinates and nothing else about the source makes the
\* loader leave it out: the TV Asahi loader skips adjustment pins and undated
\* markers, the other two fail on a source none of whose items has a date field.
Wanted(name, source, it) ==
    /\ IsNum(it.lat) /\ IsNum(it.lon)
    /\ name = "tvasahi" => (~it.adjust /\ it.lat.val <= adjust_lat /\ it.date.kind = "day")
    /\ name # "tvasahi" => \E i \in 1..Len(source) : source[i].date.kind # "absent"

C5_BadRecordDroppedAlone ==
    (loader # "none" /\ \E i \in 1..Len(raw) : BadCoordinates(raw[i])) =>
        \A i \in 1..Len(raw) :
            Wanted(loader, raw, raw[i]) =>
                Row(raw[i].lat.val, raw[i].lon.val,
                    IF raw[i].date.kind = "day" THEN <<raw[i].date.day>> ELSE <<>>,
                    loader) \in Range(loaded)

(***************************************************************************)
(* C7.  As claimed: a track longer than the cap (500) is down-sampled to   *)
(* every Nth point, N = ceil(length / cap), the first and the last point   *)
(* kept.                                                                   *)
(***************************************************************************)
CeilDiv(a, b) == (a + b - 1) \div b

EveryNth(points, n) == [k \in 1..CeilDiv(Len(points), n) |-> points[(k - 1) * n + 1]]

C7_EveryCeilNthKeepsEnds ==
    (detected /\ Len(Route) > 500) =>
        /\ sampled_route = EveryNth(Route, CeilDiv(Len(Route), 500))
           \/ sampled_route = Append(EveryNth(Route, CeilDiv(Len(Route), 500)), Route[Len(Route)])
        /\ sampled_route[1] = Route[1]
        /\ sampled_route[Len(sampled_route)] = Route[Len(Route)]

(***************************************************************************)
(* C7 as amended.  check_proximity down-samples a track of 50 points or    *)
(* more to every 50th point (points 1, 51, 101, ...), whatever its length, *)
(* and uses a shorter track whole.  The first point is always kept; the    *)
(* last point is kept only when the track is shorter than 50 points or its *)
(* length is one more than a multiple of 50.                               *)
(***************************************************************************)
C7_Every50thKeepsFirst ==
    detected =>
        LET n == Len(Route)
            m == Len(sampled_route)
        IN  /\ n < 50 => sampled_route = Route
            /\ n >= 50 =>
                   /\ 50 * (m - 1) + 1 <= n
                   /\ n <= 50 * m
                   /\ \A k \in 1..m : sampled_route[k] = Route[50 * (k - 1) + 1]
            /\ m >= 1
            /\ sampled_route[1] = Route[1]
            /\ (sampled_route[m] = Route[n]) <=> (n < 50 \/ (n - 1) % 50 = 0)

\* A track of 50 points or more was down-sampled and lost its last point.
C7_Witness ==
    /\ detected
    /\ Len(Route) >= 50
    /\ Len(sampled_route) >= 2
    /\ sampled_route[Len(sampled_route)] # Route[Len(Route)]

(***************************************************************************)
(* C8.  As claimed: for every track longer than the cap (500) the          *)
(* down-sampled track has at most 500 points, and the original keeps its   *)
(* full length for drawing.                                                *)
(***************************************************************************)
C8_AtMostCapPoints ==
    (detected /\ Len(Route) > 500) =>
        /\ Len(sampled_route) <= 500
        /\ polyline = Route
        /\ route_points = Route

(***************************************************************************)
(* C8 as amended.  For every track longer than 500 points and no longer    *)
(* than 25,000 points the down-sampled track has at most 500 points: the   *)
(* stride is fixed at 50, so a track of n >= 50 points is down-sampled to  *)
(* ceil(n / 50) points.  The original track keeps its full length for      *)
(* drawing.                                                                *)
(***************************************************************************)
C8_AtMostCapUpTo25000 ==
    detected =>
        /\ polyline = Route
        /\ route_points = Route
        /\ Len(Route) >= 50 => Len(sampled_route) = CeilDiv(Len(Route), 50)
        /\ (Len(Route) > 500 /\ Len(Route) <= 25000) => Len(sampled_route) <= 500

\* A track longer than the cap, down-sampled to fewer points and drawn whole.
C8_Witness ==
    /\ detected
    /\ Len(Route) > 500
    /\ Len(sampled_route) <= 500
    /\ Len(polyline) = Len(Route)

====
